---------------------------- MODULE Spec2Model ----------------------------
(***************************************************************************)
(* Session controllers of the live camera tools.                           *)
(*                                                                         *)
(*   cv_mk1.py  ImageProcessorApp : start / stop / poll tick / capture,    *)
(*              parameter parsing and the contour area filter              *)
(*   mac.py     CameraViewer      : start / stop / poll tick               *)
(*                                                                         *)
(* Each script is its own process with one Qt event loop.  A handler runs  *)
(* to completion unless it opens a modal QMessageBox: the box runs a       *)
(* nested event loop in which the poll timer still fires but the window's  *)
(* buttons and its close box are blocked.  Every handler returns right     *)
(* after its box is dismissed, so an open box is one entry of `dialogs`.   *)
(***************************************************************************)
EXTENDS Integers, Sequences, FiniteSets, TLC

VARIABLES
    running,          \* which script this process runs: "cv_mk1" or "mac"
    \* ---- ImageProcessorApp (cv_mk1.py) ----
    cap,              \* self.cap: "None" | "unopened" | "opened"
    current_frame,    \* self.current_frame: 0 is None, else a frame
    timer,            \* self.timer.isActive()
    start_cam_btn,    \* start_cam_btn.isEnabled()
    stop_cam_btn,     \* stop_cam_btn.isEnabled()
    original_label,   \* what the live-feed label shows
    mask_label,       \* mask panel
    morph_label,      \* closed-mask panel
    contour_label,    \* annotated panel
    status_label,     \* "Cell Count: n"
    dialogs,          \* stack of open message boxes (both scripts)
    closed,           \* the window was closed (both scripts)
    crashed,          \* the process aborted on an unhandled exception
    \* ---- CameraViewer (mac.py) ----
    v_cap,            \* self.cap
    v_timer,          \* self.timer.isActive()
    start_btn,        \* start_btn.isEnabled()
    stop_btn,         \* stop_btn.isEnabled()
    video_label,      \* what the video label shows
    \* ---- the device, as the process holds it ----
    openHandles,      \* opened and not yet released VideoCapture objects
    \* ---- history ----
    ev,               \* the handler that ran last and how it ended
    ticked,           \* a tick succeeded since the last successful start
    startFailed,      \* a start failed since the last successful start
    readFailed,       \* a read failed since the last successful start
    captures,         \* process_frame invocations that passed parsing
    \* ---- locals of the contour filter (cv_mk1.py:214-225) ----
    cnts, min_area, max_area, good, count, pc

appVars    == <<cap, current_frame, timer, start_cam_btn, stop_cam_btn,
                original_label, mask_label, morph_label, contour_label,
                status_label, ticked, captures>>
viewerVars == <<v_cap, v_timer, start_btn, stop_btn, video_label>>
filterVars == <<cnts, min_area, max_area, good, count, pc>>
vars == <<running, appVars, viewerVars, dialogs, closed, crashed, openHandles, ev,
          startFailed, readFailed, filterVars>>

---------------------------------------------------------------------------
(* Bounds *)

MaxFrame    == 2     \* distinct images the camera can deliver
MaxCaptures == 2     \* detections run in one behaviour
MaxContours == 2     \* contours findContours returns

Frames == 1..MaxFrame

---------------------------------------------------------------------------
(* Text of a QLineEdit: a sequence of characters.                          *)

Digits == {"0", "1", "2", "3", "4", "5", "6", "7", "8", "9"}

DigitVal(c) ==
    CASE c = "0" -> 0 [] c = "1" -> 1 [] c = "2" -> 2 [] c = "3" -> 3
      [] c = "4" -> 4 [] c = "5" -> 5 [] c = "6" -> 6 [] c = "7" -> 7
      [] c = "8" -> 8 [] c = "9" -> 9

RECURSIVE LStrip(_)
LStrip(t) == IF t # <<>> /\ Head(t) = " " THEN LStrip(Tail(t)) ELSE t

RECURSIVE RStrip(_)
RStrip(t) ==
    IF t # <<>> /\ t[Len(t)] = " " THEN RStrip(SubSeq(t, 1, Len(t) - 1)) ELSE t

\* int() and float() ignore surrounding whitespace
Strip(t) == RStrip(LStrip(t))

HasSign(t) == t # <<>> /\ Head(t) \in {"-", "+"}
Unsigned(t) == IF HasSign(t) THEN Tail(t) ELSE t
SignOf(t) == IF t # <<>> /\ Head(t) = "-" THEN -1 ELSE 1

AllDigits(t) == \A i \in 1..Len(t) : t[i] \in Digits

RECURSIVE DigitsVal(_)
DigitsVal(t) ==
    IF t = <<>> THEN 0 ELSE 10 * DigitsVal(SubSeq(t, 1, Len(t) - 1)) + DigitVal(t[Len(t)])

\* int(text) succeeds: optional sign, then one or more decimal digits
IntOk(t) ==
    LET u == Unsigned(Strip(t)) IN u # <<>> /\ AllDigits(u)

IntVal(t) == SignOf(Strip(t)) * DigitsVal(Unsigned(Strip(t)))

(* Areas are kept in tenths of a pixel, so that the half-pixel areas        *)
(* cv2.contourArea returns and one-decimal bounds are exact.  A float is    *)
(* [nan, v]: v tenths, or NaN (which float() accepts as the text "nan").    *)
Num(v) == [nan |-> FALSE, v |-> v]
NaN    == [nan |-> TRUE, v |-> 0]

DotAt(u) == {i \in 1..Len(u) : u[i] = "."}
IntPart(u)  == IF DotAt(u) = {} THEN u
               ELSE SubSeq(u, 1, (CHOOSE i \in DotAt(u) : TRUE) - 1)
FracPart(u) == IF DotAt(u) = {} THEN <<>>
               ELSE SubSeq(u, (CHOOSE i \in DotAt(u) : TRUE) + 1, Len(u))

IsNanText(u) == u = <<"n", "a", "n">>

\* float(text) succeeds: optional sign, then "nan" or digits with at most
\* one point and at least one digit (texts here carry at most one decimal)
FloatOk(t) ==
    LET u == Unsigned(Strip(t)) IN
      \/ IsNanText(u)
      \/ /\ Cardinality(DotAt(u)) <= 1
         /\ AllDigits(IntPart(u)) /\ AllDigits(FracPart(u))
         /\ Len(IntPart(u)) + Len(FracPart(u)) >= 1
         /\ Len(FracPart(u)) <= 1

FloatVal(t) ==
    LET u == Unsigned(Strip(t)) IN
      IF IsNanText(u) THEN NaN
      ELSE Num(SignOf(Strip(t)) *
               (10 * DigitsVal(IntPart(u)) + DigitsVal(FracPart(u))))

\* a <= b on floats: every comparison with NaN is false
Leq(a, b) == ~a.nan /\ ~b.nan /\ a.v <= b.v

---------------------------------------------------------------------------
(* The nine parameter fields (cv_mk1.py:108-118) and what the user may      *)
(* have typed into one of them at the moment of a capture.                  *)

Defaults ==
    << <<"2", "3">>, <<"1", "7", "9">>, <<"3", "8">>, <<"2", "5", "5">>,
       <<"4", "3">>, <<"1", "8", "7">>, <<"7">>,
       <<"2", "0">>, <<"3", "5", "1", "5">> >>

\* texts int() rejects, among them ones float() accepts
BadIntTexts == { <<>>, <<"x">>, <<"2", ".", "5">>, <<"n", "a", "n">> }

\* edits of the six HSV fields (1-6), the kernel field (7), the area fields
\* (8, 9).  A well-formed HSV edit changes the mask only, which the panels
\* below carry as the frame and the invocation it was computed from.
EditTexts(i) ==
    IF i <= 6 THEN BadIntTexts
    ELSE IF i = 7
    THEN BadIntTexts \cup { <<" ", "8", " ">>, <<"0">>, <<"-", "1">>, <<"-", "2">> }
    ELSE { <<>>, <<"x">>, <<"2", ".", "5">>, <<"n", "a", "n">>, <<"-", "1">>,
           <<" ", "8", " ">> }

ParamInputs ==
    {Defaults} \cup
    UNION {{[Defaults EXCEPT ![i] = t] : t \in EditTexts(i)} : i \in 1..9}

\* the try block of process_frame: int() on fields 1-7, float() on 8 and 9
ParseOk(p) ==
    /\ \A i \in 1..7 : IntOk(p[i])
    /\ FloatOk(p[8]) /\ FloatOk(p[9])

\* if kernel_size % 2 == 0: kernel_size += 1
OddKernel(k) == IF k % 2 = 0 THEN k + 1 ELSE k

\* cv2.getStructuringElement rejects a size below 1 with cv2.error
KernelAccepted(k) == k >= 1

---------------------------------------------------------------------------
(* Contours: what cv2.findContours returned, in scan order.                 *)

Areas == {195, 200, 35150, 35155}   \* 19.5, 20, 3515, 3515.5 pixels

ContourSeqs ==
    UNION {{[i \in 1..n |-> [idx |-> i, area |-> Num(a[i])]] : a \in [1..n -> Areas]}
           : n \in 0..MaxContours}

contourArea(c) == c.area

\* what is in front of the camera at a capture: nothing, one cell on the
\* lower bound, a speck and a cell on the upper bound, two blobs too large
Contour(i, a) == [idx |-> i, area |-> Num(a)]

Scenes ==
    { <<>>,
      <<Contour(1, 200)>>,
      <<Contour(1, 195), Contour(2, 35150)>>,
      <<Contour(1, 35155), Contour(2, 35155)>> }

\* a filter whose lower bound is exclusive
GoodContoursExclusive(cs, lo, hi) ==
    SelectSeq(cs, LAMBDA c : Leq(lo, contourArea(c)) /\ lo # contourArea(c)
                             /\ Leq(contourArea(c), hi))

\* good = [c for c in cnts if min_area <= cv2.contourArea(c) <= max_area]
GoodContours(cs, lo, hi) ==
    SelectSeq(cs, LAMBDA c : Leq(lo, contourArea(c)) /\ Leq(contourArea(c), hi))

---------------------------------------------------------------------------
(* Labels and message boxes *)

Text(s) == [text |-> s, frame |-> 0]
Pix(f)  == [text |-> "", frame |-> f]
Empty   == [inv |-> 0, frame |-> 0]

CannotOpen  == "critical: Cannot open camera."
ReadWarning == "warning: Failed to read from camera."
NoFrame     == "warning: No frame to capture."
BadInput    == "warning: Enter valid numeric parameters."

Event(op, out) == [op |-> op, out |-> out, avail |-> FALSE, retry |-> FALSE]

\* the window takes clicks: it is open, alive, and no modal box blocks it
UserCan == ~closed /\ ~crashed /\ dialogs = <<>>

---------------------------------------------------------------------------
(* ImageProcessorApp                                                        *)

AppSession ==
    [timer |-> timer, cap |-> cap, open |-> openHandles,
     start |-> start_cam_btn, stop |-> stop_cam_btn, label |-> original_label]

SetAppSession(r) ==
    /\ timer' = r.timer
    /\ cap' = r.cap
    /\ openHandles' = r.open
    /\ start_cam_btn' = r.start
    /\ stop_cam_btn' = r.stop
    /\ original_label' = r.label

\* a stop_camera that leaves the poll timer running
stop_camera_keeps_timer(s) ==
    [timer |-> s.timer,
     cap   |-> "None",
     open  |-> IF s.cap = "opened" THEN s.open - 1 ELSE s.open,
     start |-> TRUE,
     stop  |-> FALSE,
     label |-> Text("Live Feed Stopped")]

\* stop_camera: timer.stop(); release the handle if there is one; cap = None;
\* start enabled, stop disabled; the live-feed label shows the stopped text
stop_camera(s) ==
    [timer |-> FALSE,
     cap   |-> "None",
     open  |-> IF s.cap = "opened" THEN s.open - 1 ELSE s.open,
     start |-> TRUE,
     stop  |-> FALSE,
     label |-> Text("Live Feed Stopped")]

\* a start_camera that switches the buttons and starts the timer before it
\* looks at isOpened()
start_camera_switches_first(avail) ==
    /\ cap' = IF avail THEN "opened" ELSE "unopened"
    /\ openHandles' = IF avail THEN openHandles + 1 ELSE openHandles
    /\ ev' = [op |-> "start", out |-> IF avail THEN "ok" ELSE "fail",
              avail |-> avail, retry |-> startFailed]
    /\ start_cam_btn' = FALSE
    /\ stop_cam_btn' = TRUE
    /\ timer' = TRUE
    /\ IF avail
       THEN /\ ticked' = FALSE
            /\ startFailed' = FALSE
            /\ readFailed' = FALSE
            /\ UNCHANGED dialogs
       ELSE /\ dialogs' = Append(dialogs, CannotOpen)
            /\ startFailed' = TRUE
            /\ UNCHANGED <<ticked, readFailed>>
    /\ UNCHANGED <<current_frame, original_label, mask_label, morph_label,
                   contour_label, status_label, captures, closed, crashed>>

\* start_camera, the device being available or not when VideoCapture opens it.
\* The object self.cap held before is dropped without release().
start_camera(avail) ==
    /\ cap' = IF avail THEN "opened" ELSE "unopened"
    /\ openHandles' = IF avail THEN openHandles + 1 ELSE openHandles
    /\ ev' = [op |-> "start", out |-> IF avail THEN "ok" ELSE "fail",
              avail |-> avail, retry |-> startFailed]
    /\ IF avail
       THEN /\ start_cam_btn' = FALSE
            /\ stop_cam_btn' = TRUE
            /\ timer' = TRUE
            /\ ticked' = FALSE
            /\ startFailed' = FALSE
            /\ readFailed' = FALSE
            /\ UNCHANGED dialogs
       ELSE /\ dialogs' = Append(dialogs, CannotOpen)
            /\ startFailed' = TRUE
            /\ UNCHANGED <<start_cam_btn, stop_cam_btn, timer, ticked, readFailed>>
    /\ UNCHANGED <<current_frame, original_label, mask_label, morph_label,
                   contour_label, status_label, captures, closed, crashed>>

\* an update_live_frame that warns about a failed read without stopping
update_live_frame_keeps_polling(ret, frame) ==
    IF ~(ret /\ cap = "opened")
    THEN /\ dialogs' = Append(dialogs, ReadWarning)
         /\ readFailed' = TRUE
         /\ ev' = Event("tick", "fail")
         /\ UNCHANGED <<cap, current_frame, timer, start_cam_btn, stop_cam_btn,
                        original_label, openHandles, ticked, crashed>>
    ELSE /\ current_frame' = frame
         /\ original_label' = Pix(frame)
         /\ ticked' = TRUE
         /\ ev' = Event("tick", "ok")
         /\ UNCHANGED <<cap, timer, start_cam_btn, stop_cam_btn, dialogs,
                        openHandles, readFailed, crashed>>

\* update_live_frame, cap.read() returning (ret, frame)
update_live_frame(ret, frame) ==
    IF cap = "None"
    THEN \* None has no read(): the slot raises
         /\ ev' = Event("tick", "error")
         /\ crashed' \in BOOLEAN
         /\ UNCHANGED <<cap, current_frame, timer, start_cam_btn, stop_cam_btn,
                        original_label, dialogs, openHandles, ticked, readFailed>>
    ELSE IF ~(ret /\ cap = "opened")
    THEN /\ SetAppSession(stop_camera(AppSession))
         /\ dialogs' = Append(dialogs, ReadWarning)
         /\ readFailed' = TRUE
         /\ ev' = Event("tick", "fail")
         /\ UNCHANGED <<current_frame, ticked, crashed>>
    ELSE /\ current_frame' = frame
         /\ original_label' = Pix(frame)
         /\ ticked' = TRUE
         /\ ev' = Event("tick", "ok")
         /\ UNCHANGED <<cap, timer, start_cam_btn, stop_cam_btn, dialogs,
                        openHandles, readFailed, crashed>>

\* the except branch of process_frame: the warning box, then return
invalid_input ==
    /\ dialogs' = Append(dialogs, BadInput)
    /\ ev' = Event("capture", "invalid")
    /\ UNCHANGED <<mask_label, morph_label, contour_label, status_label,
                   captures, crashed>>

\* process_frame past the try block, on well-formed field texts p: the mask
\* panel, the structuring element, the closed-mask panel, the contours found
\* in the closed mask, the count and the annotated panel
run_pipeline(image_bgr, p) ==
    LET kernel_size == OddKernel(IntVal(p[7]))
        lo  == FloatVal(p[8])
        hi  == FloatVal(p[9])
        inv == captures + 1
    IN  /\ captures < MaxCaptures
        /\ captures' = inv
        /\ mask_label' = [inv |-> inv, frame |-> image_bgr]
        /\ UNCHANGED dialogs
        /\ IF ~KernelAccepted(kernel_size)
           THEN \* cv2.error propagates out of the slot at line 207: PyQt
                \* aborts the process or reports and carries on
                /\ ev' = Event("capture", "error")
                /\ crashed' \in BOOLEAN
                /\ UNCHANGED <<morph_label, contour_label, status_label>>
           ELSE \E cs \in Scenes :
                /\ morph_label' = [inv |-> inv, frame |-> image_bgr]
                /\ contour_label' = [inv |-> inv, frame |-> image_bgr]
                /\ status_label' =
                       [inv |-> inv, n |-> Len(GoodContours(cs, lo, hi))]
                /\ ev' = Event("capture", "ok")
                /\ UNCHANGED crashed

\* a process_frame that converts the two area fields only where it needs
\* them, after the mask panel was drawn
process_frame_parses_late(image_bgr) ==
    \E p \in ParamInputs :
      IF ~(\A i \in 1..7 : IntOk(p[i])) THEN invalid_input
      ELSE IF ~ParseOk(p)
      THEN /\ captures < MaxCaptures
           /\ captures' = captures + 1
           /\ mask_label' = [inv |-> captures + 1, frame |-> image_bgr]
           /\ dialogs' = Append(dialogs, BadInput)
           /\ ev' = Event("capture", "invalid")
           /\ UNCHANGED <<morph_label, contour_label, status_label, crashed>>
      ELSE run_pipeline(image_bgr, p)

\* process_frame: the nine field texts p are read and parsed first
process_frame(image_bgr) ==
    \E p \in ParamInputs :
      IF ~ParseOk(p) THEN invalid_input ELSE run_pipeline(image_bgr, p)

capture_frame ==
    /\ IF current_frame = 0
       THEN /\ dialogs' = Append(dialogs, NoFrame)
            /\ ev' = Event("capture", "none")
            /\ UNCHANGED <<mask_label, morph_label, contour_label, status_label,
                           captures, crashed>>
       ELSE process_frame(current_frame)
    /\ UNCHANGED <<cap, current_frame, timer, start_cam_btn, stop_cam_btn,
                   original_label, openHandles, ticked, startFailed, readFailed,
                   closed>>

\* closeEvent: stop_camera(), then the window goes
closeEvent ==
    /\ SetAppSession(stop_camera(AppSession))
    /\ closed' = TRUE
    /\ ev' = Event("close", IF timer THEN "was_live" ELSE "was_closed")
    /\ UNCHANGED <<current_frame, mask_label, morph_label, contour_label,
                   status_label, captures, dialogs, crashed, ticked,
                   startFailed, readFailed>>

AppRuns == running = "cv_mk1"

StartCamera ==
    /\ AppRuns /\ UserCan /\ start_cam_btn
    /\ \E avail \in BOOLEAN : start_camera(avail)
    /\ UNCHANGED <<running, viewerVars, filterVars>>

StopCamera ==
    /\ AppRuns /\ UserCan /\ stop_cam_btn
    /\ SetAppSession(stop_camera(AppSession))
    /\ ev' = Event("stop", "ok")
    /\ UNCHANGED <<running, current_frame, mask_label, morph_label,
                   contour_label, status_label, captures, dialogs, closed,
                   crashed, ticked, startFailed, readFailed, viewerVars,
                   filterVars>>

Tick ==
    /\ AppRuns /\ ~closed /\ ~crashed /\ timer
    /\ \E ret \in BOOLEAN, frame \in Frames : update_live_frame(ret, frame)
    /\ UNCHANGED <<running, mask_label, morph_label, contour_label,
                   status_label, captures, closed, startFailed, viewerVars,
                   filterVars>>

Capture ==
    /\ AppRuns /\ UserCan
    /\ capture_frame
    /\ UNCHANGED <<running, viewerVars, filterVars>>

CloseWindow ==
    /\ AppRuns /\ UserCan
    /\ closeEvent
    /\ UNCHANGED <<running, viewerVars, filterVars>>

\* the user dismisses the topmost message box; its handler returns
Dismiss ==
    /\ ~crashed /\ dialogs # <<>>
    /\ dialogs' = SubSeq(dialogs, 1, Len(dialogs) - 1)
    /\ ev' = Event("dismiss", "ok")
    /\ UNCHANGED <<running, appVars, viewerVars, closed, crashed, openHandles,
                   startFailed, readFailed, filterVars>>

---------------------------------------------------------------------------
(* CameraViewer                                                             *)

ViewerSession ==
    [timer |-> v_timer, cap |-> v_cap, open |-> openHandles,
     start |-> start_btn, stop |-> stop_btn, label |-> video_label]

SetViewerSession(r) ==
    /\ v_timer' = r.timer
    /\ v_cap' = r.cap
    /\ openHandles' = r.open
    /\ start_btn' = r.start
    /\ stop_btn' = r.stop
    /\ video_label' = r.label

\* a stop that sets the two buttons the wrong way round
stop_swaps_buttons(s) ==
    [timer |-> FALSE,
     cap   |-> "None",
     open  |-> IF s.cap = "opened" THEN s.open - 1 ELSE s.open,
     start |-> FALSE,
     stop  |-> TRUE,
     label |-> Text("Camera stopped.")]

\* stop: timer.stop(); release the handle if it is open; cap = None;
\* start enabled, stop disabled; the label shows the stopped text
stop(s) ==
    [timer |-> FALSE,
     cap   |-> "None",
     open  |-> IF s.cap = "opened" THEN s.open - 1 ELSE s.open,
     start |-> TRUE,
     stop  |-> FALSE,
     label |-> Text("Camera stopped.")]

\* the handle start() goes on with: a VideoCapture is constructed only
\* when self.cap is None
CapAfterOpen(c, avail) ==
    IF c = "None" THEN (IF avail THEN "opened" ELSE "unopened") ELSE c

start(avail) ==
    LET c == CapAfterOpen(v_cap, avail) IN
    /\ v_cap' = c
    /\ openHandles' = IF v_cap = "None" /\ avail THEN openHandles + 1
                      ELSE openHandles
    /\ ev' = [op |-> "start", out |-> IF c = "opened" THEN "ok" ELSE "fail",
              avail |-> avail, retry |-> startFailed]
    /\ IF c = "opened"
       THEN /\ start_btn' = FALSE
            /\ stop_btn' = TRUE
            /\ v_timer' = TRUE
            /\ startFailed' = FALSE
            /\ readFailed' = FALSE
            /\ UNCHANGED dialogs
       ELSE /\ dialogs' = Append(dialogs, CannotOpen)
            /\ startFailed' = TRUE
            /\ UNCHANGED <<start_btn, stop_btn, v_timer, readFailed>>
    /\ UNCHANGED <<video_label, closed, crashed>>

update_frame(ret, frame) ==
    IF v_cap = "None"
    THEN /\ ev' = Event("tick", "error")
         /\ crashed' \in BOOLEAN
         /\ UNCHANGED <<viewerVars, dialogs, openHandles, readFailed>>
    ELSE IF ~(ret /\ v_cap = "opened")
    THEN /\ SetViewerSession(stop(ViewerSession))
         /\ dialogs' = Append(dialogs, ReadWarning)
         /\ readFailed' = TRUE
         /\ ev' = Event("tick", "fail")
         /\ UNCHANGED crashed
    ELSE /\ video_label' = Pix(frame)
         /\ ev' = Event("tick", "ok")
         /\ UNCHANGED <<v_cap, v_timer, start_btn, stop_btn, dialogs,
                        openHandles, readFailed, crashed>>

ViewerRuns == running = "mac"

ViewerStart ==
    /\ ViewerRuns /\ UserCan /\ start_btn
    /\ \E avail \in BOOLEAN : start(avail)
    /\ UNCHANGED <<running, appVars, filterVars>>

ViewerStop ==
    /\ ViewerRuns /\ UserCan /\ stop_btn
    /\ SetViewerSession(stop(ViewerSession))
    /\ ev' = Event("stop", "ok")
    /\ UNCHANGED <<running, appVars, dialogs, closed, crashed, startFailed,
                   readFailed, filterVars>>

ViewerTick ==
    /\ ViewerRuns /\ ~closed /\ ~crashed /\ v_timer
    /\ \E ret \in BOOLEAN, frame \in Frames : update_frame(ret, frame)
    /\ UNCHANGED <<running, appVars, closed, startFailed, filterVars>>

ViewerClose ==
    /\ ViewerRuns /\ UserCan
    /\ SetViewerSession(stop(ViewerSession))
    /\ closed' = TRUE
    /\ ev' = Event("close", IF v_timer THEN "was_live" ELSE "was_closed")
    /\ UNCHANGED <<running, appVars, dialogs, crashed, startFailed,
                   readFailed, filterVars>>

---------------------------------------------------------------------------
(* The two scripts                                                          *)

WindowInit ==
    /\ cap = "None" /\ current_frame = 0 /\ timer = FALSE
    /\ start_cam_btn = TRUE /\ stop_cam_btn = FALSE
    /\ original_label = Text("Live Feed")
    /\ mask_label = Empty /\ morph_label = Empty /\ contour_label = Empty
    /\ status_label = [inv |-> 0, n |-> 0]
    /\ v_cap = "None" /\ v_timer = FALSE
    /\ start_btn = TRUE /\ stop_btn = FALSE
    /\ video_label = Text("Initializing camera...")
    /\ dialogs = <<>> /\ closed = FALSE /\ crashed = FALSE
    /\ openHandles = 0
    /\ ev = Event("init", "ok")
    /\ ticked = FALSE /\ startFailed = FALSE /\ readFailed = FALSE
    /\ captures = 0

Init ==
    /\ running \in {"cv_mk1", "mac"}
    /\ WindowInit
    /\ cnts = <<>> /\ min_area = NaN /\ max_area = NaN
    /\ good = <<>> /\ count = 0 /\ pc = "idle"

Next ==
    \/ StartCamera \/ StopCamera \/ Tick \/ Capture \/ CloseWindow
    \/ ViewerStart \/ ViewerStop \/ ViewerTick \/ ViewerClose
    \/ Dismiss

Spec == Init /\ [][Next]_vars

---------------------------------------------------------------------------
(* The contour filter alone, on every contour list and pair of bounds       *)

AreaTexts ==
    { <<"2", "0">>, <<"1", "9", ".", "5">>, <<"3", "5", "1", "5">>,
      <<"3", "5", "1", "5", ".", "5">>, <<"n", "a", "n">> }

FilterInit ==
    /\ running = "cv_mk1"
    /\ WindowInit
    /\ cnts \in ContourSeqs
    /\ \E a \in AreaTexts : min_area = FloatVal(a)
    /\ \E b \in AreaTexts : max_area = FloatVal(b)
    /\ good = <<>> /\ count = 0 /\ pc = "filter"

\* lines 215 and 225: good is built, its length is reported
Filter ==
    /\ pc = "filter"
    /\ good' = GoodContours(cnts, min_area, max_area)
    /\ count' = Len(good')
    /\ pc' = "done"
    /\ UNCHANGED <<running, appVars, viewerVars, dialogs, closed, crashed,
                   openHandles, ev, startFailed, readFailed, cnts, min_area,
                   max_area>>

FilterSpec == FilterInit /\ [][Filter]_vars

---------------------------------------------------------------------------
(* The session of the running script                                        *)

SessionCap   == IF AppRuns THEN cap ELSE v_cap
SessionTimer == IF AppRuns THEN timer ELSE v_timer
StartEnabled == IF AppRuns THEN start_cam_btn ELSE start_btn
StopEnabled  == IF AppRuns THEN stop_cam_btn ELSE stop_btn
LiveSlot     == IF AppRuns THEN original_label ELSE video_label
StoppedText  == IF AppRuns THEN Text("Live Feed Stopped")
                ELSE Text("Camera stopped.")
SessionRec   == IF AppRuns THEN AppSession ELSE ViewerSession
StopOf(r)    == IF AppRuns THEN stop_camera(r) ELSE stop(r)

\* Live: device acquired, polling active.  Closed: no device acquired.
Live          == SessionCap = "opened" /\ SessionTimer
SessionClosed == SessionCap # "opened" /\ ~SessionTimer /\ openHandles = 0

Did(op, out) == ev.op = op /\ ev.out = out
TopDialog    == IF dialogs = <<>> THEN "" ELSE dialogs[Len(dialogs)]
Panels       == <<mask_label, morph_label, contour_label, status_label>>

---------------------------------------------------------------------------
\* the last capture got past the cached-frame check and the parse: the
\* pipeline ran on a frame
Detected == ev.op = "capture" /\ ev.out \in {"ok", "error"}

(* C1: a capture issued while the session is Closed runs no detection on    *)
(* any frame: the cache was cleared by the stop, so the capture ends in     *)
(* NothingToCapture.                                                        *)
C1_CaptureOnlyWhileLive ==
    (AppRuns /\ SessionClosed) => ~Detected

(* C2: a capture issued while Live, after a successful start and before     *)
(* the first successful tick of that session, runs no detection on any      *)
(* frame: it ends in NothingToCapture.                                      *)
C2_NoCaptureBeforeFirstTick ==
    (AppRuns /\ Live /\ ~ticked) => ~Detected

(* C3: a start pressed again after a failed start, with the device          *)
(* available at that moment, opens it: the session is Live, polling active. *)
C3_RetryOpensDevice ==
    (ev.op = "start" /\ ev.retry /\ ev.avail) => (ev.out = "ok" /\ Live)

(* C4: a failed read on a tick leaves the session Closed (timer cancelled,  *)
(* device released) with exactly one more message box, the read warning,    *)
(* open; the cached frame is the one cached before; and from then on no     *)
(* tick fires until a start succeeds, the warning box open or not.          *)
C4_ReadFailureStops ==
    [][ /\ (ev'.op = "tick" /\ ev'.out = "fail") =>
              /\ SessionClosed'
              /\ SessionCap' = "None"
              /\ dialogs' = Append(dialogs, ReadWarning)
              /\ current_frame' = current_frame
              /\ readFailed'
        /\ readFailed' => SessionClosed'
        /\ readFailed => ev'.op # "tick"
        /\ (readFailed /\ ~readFailed') => (ev'.op = "start" /\ ev'.out = "ok")
      ]_vars

C4_Witness ==
    /\ AppRuns /\ Did("tick", "fail") /\ current_frame # 0
    /\ Len(dialogs) = 2

(* C5: a start that cannot open the device surfaces the error and leaves    *)
(* the session Closed: no polling, no open handle, start enabled, stop      *)
(* disabled.                                                                *)
C5_FailedStartStaysClosed ==
    Did("start", "fail") =>
        /\ SessionClosed
        /\ StartEnabled /\ ~StopEnabled
        /\ TopDialog = CannotOpen

C5_Witness == AppRuns /\ Did("start", "fail") /\ ev.retry

(* C6 as stated: a stop while Closed changes no state at all.               *)
C6_StopWhileClosedChangesNothing ==
    [][ (ev'.op = "close" /\ ev'.out = "was_closed") =>
            UNCHANGED <<appVars, viewerVars, dialogs, crashed, openHandles>>
      ]_vars

(* C6 amended: a stop while Closed raises no error and leaves the timer     *)
(* inactive, the cached frame, the panels and the control enablement as     *)
(* they were, and no device held; it sets the handle to None and the        *)
(* live-feed slot to the stopped text.  A stop applied to the state any     *)
(* stop leaves changes nothing: stop;stop is stop.                          *)
C6_StopWhileClosed ==
    [][ /\ (ev'.op = "close" /\ ev'.out = "was_closed") =>
              /\ ~crashed' /\ dialogs' = dialogs
              /\ SessionTimer' = SessionTimer /\ ~SessionTimer'
              /\ current_frame' = current_frame
              /\ Panels' = Panels
              /\ StartEnabled' = StartEnabled /\ StopEnabled' = StopEnabled
              /\ openHandles' = openHandles
              /\ SessionCap' = "None"
              /\ LiveSlot' = StoppedText
        /\ ev'.op \in {"stop", "close"} => StopOf(SessionRec') = SessionRec'
      ]_vars

C6_Witness ==
    /\ Did("close", "was_closed") /\ closed
    /\ current_frame # 0 /\ status_label.inv > 0

(* C7: a field that does not parse surfaces InvalidParameter before any     *)
(* pipeline step: the three panels and the count, the cached frame, the     *)
(* handle and the timer are what they were.                                 *)
C7_InvalidParameterTouchesNothing ==
    [][ (ev'.op = "capture" /\ ev'.out = "invalid") =>
            /\ dialogs' = Append(dialogs, BadInput)
            /\ UNCHANGED <<Panels, captures, current_frame, cap, timer,
                           original_label, start_cam_btn, stop_cam_btn,
                           openHandles, crashed>>
      ]_vars

C7_Witness ==
    /\ Did("capture", "invalid") /\ Live
    /\ status_label.inv > 0

(* C8: the mask panel, the closed-mask panel, the annotated panel and the   *)
(* count always come from the same capture of the same frame.               *)
C8_PanelsFromOneCapture ==
    /\ mask_label.inv = morph_label.inv
    /\ morph_label.inv = contour_label.inv
    /\ contour_label.inv = status_label.inv
    /\ mask_label.frame = morph_label.frame
    /\ morph_label.frame = contour_label.frame

\* c's area lies in [min_area, max_area], as real numbers
InBounds(c) ==
    /\ ~min_area.nan /\ ~max_area.nan
    /\ min_area.v <= c.area.v /\ c.area.v <= max_area.v

(* C9: the count is the number of contours whose area lies in               *)
(* [min_area, max_area], both ends included; the retained contours are      *)
(* exactly those, in scan order; the count is 0 when min_area > max_area.   *)
C9_CountIsContoursInBounds ==
    pc = "done" =>
        /\ count = Cardinality({i \in 1..Len(cnts) : InBounds(cnts[i])})
        /\ Len(good) = count
        /\ \A j \in 1..Len(good) : good[j] = cnts[good[j].idx]
        /\ \A j \in 1..(Len(good) - 1) : good[j].idx < good[j + 1].idx
        /\ \A i \in 1..Len(cnts) :
              InBounds(cnts[i]) => \E j \in 1..Len(good) : good[j].idx = i
        /\ (~min_area.nan /\ ~max_area.nan /\ min_area.v > max_area.v)
              => count = 0

C9_Witness ==
    /\ pc = "done" /\ Len(cnts) = 2 /\ count = 1
    /\ cnts[2].area = min_area /\ cnts[1].area.v < min_area.v
    /\ good = <<cnts[2]>>

(* C10: the poll timer is active only while the controller holds an opened  *)
(* handle, so no tick reads a null or released handle; start is disabled    *)
(* while Live, and at most one opened handle exists.                        *)
C10_TimerOnlyWithOpenHandle ==
    /\ timer => cap = "opened"
    /\ v_timer => v_cap = "opened"
    /\ SessionTimer => (~StartEnabled /\ openHandles = 1)
    /\ openHandles <= 1
    /\ openHandles = 1 => SessionCap = "opened"
    /\ ~Did("tick", "error")

C10_Witness == Did("tick", "ok") /\ dialogs # <<>> /\ (startFailed \/ captures > 0)

===========================================================================
